---- MODULE Spec2Model ----
(***************************************************************************)
(* A model of GCC_market_dataset.py: the corpus collector, the chunker,    *)
(* the question synthesizer and the per-company driving loop.              *)
(*                                                                         *)
(* Text is modelled as a sequence of one-character strings, so that the    *)
(* string operations of the program (upper, title, split, replace, strip,  *)
(* the regular expressions) are computed as Python computes them.  A       *)
(* document's extracted text is modelled by its length: the chunker only   *)
(* slices it.                                                              *)
(***************************************************************************)
EXTENDS Integers, Sequences, FiniteSets, TLC

VARIABLES
    pc,                     \* position of the running function
    company_name,           \* process_company_documents: argument
    company_code,           \* process_company_documents: local
    questions_per_company,  \* process_company_documents: argument (the quota)
    pdf_infos,              \* process_company_documents: argument; each entry carries
                            \* what extract_text_from_pdf will return for its path
    doc_idx,                \* index of the pdf_info of the running iteration
    chunks_to_use,          \* chunks[:min(5, len(chunks))] of the running document
    chunk_idx,              \* index of the chunk of the running inner iteration
    questions_needed,       \* process_company_documents: local
    all_questions,          \* process_company_documents: local
    id_counter,             \* process_company_documents: local
    calls,                  \* history: the generate_questions calls issued, in order
    output_file,            \* lines written to the company's .jsonl file
    call,                   \* the call in progress: the function and its arguments
    ret,                    \* what the call returned, until the caller has used it
    dir_listing,            \* collect_gcc_company_pdfs: files still to visit
    company_pdfs,           \* collect_gcc_company_pdfs: local
    returns                 \* history: how the calls' results compare with what was asked

vars == <<pc, company_name, company_code, questions_per_company, pdf_infos,
          doc_idx, chunks_to_use, chunk_idx, questions_needed, all_questions,
          id_counter, calls, output_file, call, ret, dir_listing,
          company_pdfs, returns>>

driverVars == <<company_name, company_code, questions_per_company, pdf_infos,
                doc_idx, chunks_to_use, chunk_idx, questions_needed,
                all_questions, id_counter, calls, output_file>>

NoCall == [fn |-> "none"]

\* The driver's variables while another function is under study.
DriverIdle ==
    /\ company_name = <<>>
    /\ company_code = <<>>
    /\ questions_per_company = 0
    /\ pdf_infos = <<>>
    /\ doc_idx = 0
    /\ chunks_to_use = <<>>
    /\ chunk_idx = 0
    /\ questions_needed = 0
    /\ all_questions = <<>>
    /\ id_counter = 0
    /\ calls = <<>>
    /\ output_file = <<>>

CollectorIdle ==
    /\ dir_listing = <<>>
    /\ company_pdfs = <<>>

(***************************************************************************)
(* Python strings                                                          *)
(***************************************************************************)
LowerLetters ==
    <<"a", "b", "c", "d", "e", "f", "g", "h", "i", "j", "k", "l", "m",
      "n", "o", "p", "q", "r", "s", "t", "u", "v", "w", "x", "y", "z">>

UpperLetters ==
    <<"A", "B", "C", "D", "E", "F", "G", "H", "I", "J", "K", "L", "M",
      "N", "O", "P", "Q", "R", "S", "T", "U", "V", "W", "X", "Y", "Z">>

Digits == <<"0", "1", "2", "3", "4", "5", "6", "7", "8", "9">>

Range(s) == {s[i] : i \in 1..Len(s)}

IndexOf(c, s) == CHOOSE i \in 1..Len(s) : s[i] = c

IsLower(c) == c \in Range(LowerLetters)

IsUpper(c) == c \in Range(UpperLetters)

\* [A-Za-z]; also the characters str.title() treats as cased
IsAlpha(c) == IsLower(c) \/ IsUpper(c)

\* \s of re and the characters str.strip() and str.split() remove
IsSpace(c) == c \in {" ", "\n", "\t"}

ToUpper(c) == IF IsLower(c) THEN UpperLetters[IndexOf(c, LowerLetters)] ELSE c

ToLower(c) == IF IsUpper(c) THEN LowerLetters[IndexOf(c, UpperLetters)] ELSE c

Min(a, b) == IF a <= b THEN a ELSE b

\* s[a:b] with 0-based a, b as in Python (a, b >= 0)
Slice(s, a, b) == SubSeq(s, a + 1, Min(b, Len(s)))

\* str.upper()
Upper(s) == [i \in 1..Len(s) |-> ToUpper(s[i])]

\* str.title(): a letter is upper-cased when the character before it is not a
\* letter, lower-cased otherwise; other characters are kept
Title(s) ==
    [i \in 1..Len(s) |->
        IF ~IsAlpha(s[i]) THEN s[i]
        ELSE IF i > 1 /\ IsAlpha(s[i - 1]) THEN ToLower(s[i])
        ELSE ToUpper(s[i])]

\* str.replace(a, b) for one-character a and b
Replace(s, a, b) == [i \in 1..Len(s) |-> IF s[i] = a THEN b ELSE s[i]]

\* s.split(sep)[0] for a one-character sep
SplitFirst(s, sep) ==
    IF sep \in Range(s)
    THEN SubSeq(s, 1, (CHOOSE i \in 1..Len(s) :
                          s[i] = sep /\ \A j \in 1..(i - 1) : s[j] # sep) - 1)
    ELSE s

\* s.startswith(p)
StartsWith(s, p) == Len(s) >= Len(p) /\ SubSeq(s, 1, Len(p)) = p

\* p occurs in s at the 1-based position i
OccursAt(s, p, i) == i >= 1 /\ i + Len(p) - 1 <= Len(s) /\ SubSeq(s, i, i + Len(p) - 1) = p

\* p in s
Contains(s, p) == \E i \in 1..(Len(s) + 1) : OccursAt(s, p, i)

\* str.strip()
Strip(s) ==
    IF \A i \in 1..Len(s) : IsSpace(s[i]) THEN <<>>
    ELSE LET a == CHOOSE i \in 1..Len(s) :
                      ~IsSpace(s[i]) /\ \A j \in 1..(i - 1) : IsSpace(s[j])
             b == CHOOSE i \in 1..Len(s) :
                      ~IsSpace(s[i]) /\ \A j \in (i + 1)..Len(s) : IsSpace(s[j])
         IN  SubSeq(s, a, b)

\* str(n) for an integer n >= 0
RECURSIVE IntToStr(_)
IntToStr(n) ==
    IF n < 10 THEN <<Digits[n + 1]>>
    ELSE Append(IntToStr(n \div 10), Digits[(n % 10) + 1])

(***************************************************************************)
(* create_chunks_from_text                                                 *)
(***************************************************************************)
chunk_size == 1500

chunk_overlap == 200

\* windows shorter than this are skipped
min_chunk_len == 100

\* A plausible slip: the window is cut to the stride, not to chunk_size.
ChunkTextLen_Stride(text_len, i) ==
    Min(i + (chunk_size - chunk_overlap), text_len) - i

\* len(text[i:i + chunk_size]) for 0 <= i < len(text)
ChunkTextLen(text_len, i) == Min(i + chunk_size, text_len) - i

\* One iteration of `for i in range(0, len(text), chunk_size - chunk_overlap)`
\* and the iterations after it; text_len is len(text).
RECURSIVE ChunkLoop(_, _, _)
ChunkLoop(text_len, i, chunks) ==
    IF i >= text_len THEN chunks
    ELSE ChunkLoop(text_len, i + (chunk_size - chunk_overlap),
                   IF ChunkTextLen(text_len, i) < min_chunk_len THEN chunks
                   ELSE Append(chunks,
                               [text_len |-> ChunkTextLen(text_len, i),
                                start    |-> i,
                                chunk_id |-> IntToStr(Len(chunks) + 1)]))

\* create_chunks_from_text(text, pdf_info): `if not text` returns no chunk
CreateChunksFromText(text_len) ==
    IF text_len = 0 THEN <<>> ELSE ChunkLoop(text_len, 0, <<>>)

(***************************************************************************)
(* generate_company_code                                                   *)
(***************************************************************************)
\* the dictionary company_abbrev, as <<key, value>> pairs
company_abbrev ==
    { <<<<"F", "i", "r", "s", "t", " ", "A", "b", "u", " ", "D", "h", "a", "b", "i", " ", "B", "a", "n", "k">>,
         <<"F", "A", "B">>>>,
      <<<<"E", "m", "i", "r", "a", "t", "e", "s", " ", "N", "B", "D">>,
         <<"E", "N", "B", "D">>>>,
      <<<<"A", "b", "u", " ", "D", "h", "a", "b", "i", " ", "C", "o", "m", "m", "e", "r", "c", "i", "a", "l", " ", "B", "a", "n", "k">>,
         <<"A", "D", "C", "B">>>>,
      <<<<"D", "u", "b", "a", "i", " ", "I", "s", "l", "a", "m", "i", "c", " ", "B", "a", "n", "k">>,
         <<"D", "I", "B">>>>,
      <<<<"E", "m", "i", "r", "a", "t", "e", "s", " ", "I", "s", "l", "a", "m", "i", "c", " ", "B", "a", "n", "k">>,
         <<"E", "I", "B">>>>,
      <<<<"C", "o", "m", "m", "e", "r", "c", "i", "a", "l", " ", "B", "a", "n", "k", " ", "o", "f", " ", "D", "u", "b", "a", "i">>,
         <<"C", "B", "D">>>>,
      <<<<"A", "b", "u", " ", "D", "h", "a", "b", "i", " ", "I", "s", "l", "a", "m", "i", "c", " ", "B", "a", "n", "k">>,
         <<"A", "D", "I", "B">>>>,
      <<<<"T", "a", "b", "r", "e", "e", "d">>,
         <<"T", "A", "B">>>>,
      <<<<"S", "o", "h", "a", "r", " ", "I", "n", "t", "e", "r", "n", "a", "t", "i", "o", "n", "a", "l", " ", "B", "a", "n", "k">>,
         <<"S", "I", "B">>>>,
      <<<<"E", "D", "O">>,
         <<"E", "D", "O">>>>,
      <<<<"C", "o", "m", "m", "e", "r", "c", "i", "a", "l", " ", "B", "a", "n", "k">>,
         <<"C", "B", "Q">>>>,
      <<<<"B", "a", "n", "k", " ", "o", "f", " ", "B", "a", "h", "r", "a", "i", "n", " ", "a", "n", "d", " ", "K", "u", "w", "a", "i", "t">>,
         <<"B", "B", "K">>>>,
      <<<<"N", "a", "t", "i", "o", "n", "a", "l", " ", "B", "a", "n", "k", " ", "o", "f", " ", "B", "a", "h", "r", "a", "i", "n">>,
         <<"N", "B", "B">>>>,
      <<<<"A", "l", " ", "A", "h", "l", "i", " ", "B", "a", "n", "k", " ", "o", "f", " ", "K", "u", "w", "a", "i", "t">>,
         <<"A", "B", "K">>>>,
      <<<<"N", "a", "t", "i", "o", "n", "a", "l", " ", "B", "a", "n", "k", " ", "o", "f", " ", "K", "u", "w", "a", "i", "t">>,
         <<"N", "B", "K">>>>,
      <<<<"B", "a", "n", "k", " ", "M", "u", "s", "c", "a", "t">>,
         <<"B", "M">>>> }

\* d.get(key, default) for a dictionary given as a set of pairs
DictGet(d, key, default) ==
    IF \E p \in d : p[1] = key THEN (CHOOSE p \in d : p[1] = key)[2] ELSE default

\* str.split(): the maximal runs of non-space characters
RECURSIVE SplitWords(_)
SplitWords(s) ==
    IF \A i \in 1..Len(s) : IsSpace(s[i]) THEN <<>>
    ELSE LET a == CHOOSE i \in 1..Len(s) :
                      ~IsSpace(s[i]) /\ \A j \in 1..(i - 1) : IsSpace(s[j])
             b == CHOOSE i \in a..Len(s) :
                      /\ \A j \in a..i : ~IsSpace(s[j])
                      /\ (i = Len(s) \/ IsSpace(s[i + 1]))
         IN  <<SubSeq(s, a, b)>> \o SplitWords(SubSeq(s, b + 1, Len(s)))

\* ''.join(parts)
RECURSIVE Join(_)
Join(parts) == IF parts = <<>> THEN <<>> ELSE Head(parts) \o Join(Tail(parts))

generate_company_code(name) ==
    IF name = <<>> THEN <<"U", "N", "K">>
    ELSE IF \E p \in company_abbrev : p[1] = name
    THEN DictGet(company_abbrev, name, <<>>)
    ELSE LET words == SplitWords(name)
             code  == IF Len(words) >= 3
                      THEN Join([k \in 1..3 |-> Slice(words[k], 0, 1)])
                      ELSE Slice(Join([k \in 1..Len(words) |-> Slice(words[k], 0, 2)]), 0, 4)
         IN  Upper(code)

(***************************************************************************)
(* generate_questions                                                      *)
(*                                                                         *)
(* The text-generation service is outside the program.  What it does on    *)
(* one call is a `response`:                                               *)
(*   [kind |-> "api_error"]            the request raises                  *)
(*   [kind |-> "text", content |-> s]  it answers the characters s         *)
(*   [kind |-> "json", value |-> v]    it answers a text that json.loads   *)
(*                                     reads as v, or rejects              *)
(* and a JSON value v is                                                   *)
(*   [type |-> "invalid"]              not JSON (JSONDecodeError)          *)
(*   [type |-> "number"]               JSON that is not iterable           *)
(*   [type |-> "array", elems |-> e]   an array; each element is           *)
(*       [type |-> "string"]           or                                  *)
(*       [type |-> "object", keys |-> K, question |-> q, category |-> c]   *)
(***************************************************************************)
\* the dictionary source_type_mapping
source_type_mapping ==
    { <<"Financial Performance", "financial_data">>,
      <<"Market Position", "market_data">>,
      <<"Risk Factors", "risk_data">>,
      <<"Corporate Governance", "governance_data">>,
      <<"Business Strategy", "business_strategy">>,
      <<"Operational Metrics", "operational_data">>,
      <<"Sustainability", "sustainability">>,
      <<"Key Personnel", "personnel_data">> }

\* the data argument: a chunk (a dict with a 'text' key) or a company name
ChunkData(chunk, company) ==
    [type |-> "dict", keys |-> {"text", "chunk_id", "source_file", "company",
                                "country", "report_year"},
     company |-> company]

PersonnelData(company) == [type |-> "str", company |-> company]

\* is_chunk = isinstance(data, dict) and 'text' in data
IsChunk(data) == data.type = "dict" /\ "text" \in data.keys

\* question.get("category", "Miscellaneous")
RawCategory(question) ==
    IF "category" \in question.keys THEN question.category ELSE "Miscellaneous"

\* A plausible slip: only the category is forced, the source_type keeps the mapping.
CategoryAndSourceType_KeepMapped(data, question) ==
    [category    |-> IF ~IsChunk(data) THEN "Key Personnel" ELSE RawCategory(question),
     source_type |-> DictGet(source_type_mapping, RawCategory(question), "miscellaneous")]

\* category and source_type of one formatted question
CategoryAndSourceType(data, question) ==
    LET category    == RawCategory(question)
        source_type == DictGet(source_type_mapping, category, "miscellaneous")
    IN  IF ~IsChunk(data) /\ category # "Key Personnel"
        THEN [category |-> "Key Personnel", source_type |-> "personnel_data"]
        ELSE [category |-> category, source_type |-> source_type]

\* f"{company_code}{id_counter}"
QuestionId(code, counter) == code \o IntToStr(counter)

\* the dict formatted_question; raises when the element is not an object
\* (question.get) or lacks a key read with question[...]
CanFormat(question) ==
    /\ question.type = "object"
    /\ {"question", "options", "answer"} \subseteq question.keys

\* (of the metadata, the model keeps company, source_type and category: the
\* difficulty, the report year and the provenance of the chunk are copied
\* through and read by nothing)
FormattedQuestion(data, code, counter, question) ==
    [id          |-> QuestionId(code, counter),
     question    |-> question.question,
     company     |-> data.company,
     source_type |-> CategoryAndSourceType(data, question).source_type,
     category    |-> CategoryAndSourceType(data, question).category]

\* `for question in questions:` from element i on.  The counter is incremented
\* first; an element that cannot be formatted raises, and the handler of the
\* outer try returns no question and the counter as it stands.
RECURSIVE FormatLoop(_, _, _, _, _, _)
FormatLoop(data, code, elems, i, counter, formatted_questions) ==
    IF i > Len(elems)
    THEN [questions |-> formatted_questions, id_counter |-> counter, outcome |-> "ok"]
    ELSE IF ~CanFormat(elems[i])
    THEN [questions |-> <<>>, id_counter |-> counter + 1, outcome |-> "bad_element"]
    ELSE FormatLoop(data, code, elems, i + 1, counter + 1,
                    Append(formatted_questions,
                           FormattedQuestion(data, code, counter + 1, elems[i])))

(***************************************************************************)
(* The response text: code-fence stripping and json.loads                  *)
(***************************************************************************)
\* a backtick is written "^": a TLA+ string cannot hold the character itself
Backtick == "^"

\* the code fence, three backticks
Fence == <<Backtick, Backtick, Backtick>>

JsonTag == <<"j", "s", "o", "n">>

\* the number of \s characters of r from position p on
RECURSIVE SpaceRun(_, _)
SpaceRun(r, p) == IF p <= Len(r) /\ IsSpace(r[p]) THEN 1 + SpaceRun(r, p + 1) ELSE 0

\* \s*``` matches r at position p
ClosesAt(r, p) == OccursAt(r, Fence, p + SpaceRun(r, p))

\* The positions where group 1 may start when ``` matched at s, in the order the
\* backtracking of (?:json)?\s* tries them: the tag first, the longest run of
\* spaces first.
CaptureStarts(r, s) ==
    LET From(base) == [k \in 1..(SpaceRun(r, base) + 1) |->
                          base + SpaceRun(r, base) - (k - 1)]
    IN  (IF OccursAt(r, JsonTag, s + 3) THEN From(s + 3 + Len(JsonTag)) ELSE <<>>)
        \o From(s + 3)

\* ([\s\S]*?)\s*``` from position c: the shortest group that a fence follows
LazyGroup(r, c) ==
    IF \E p \in c..(Len(r) + 1) : ClosesAt(r, p)
    THEN LET p == CHOOSE x \in c..(Len(r) + 1) :
                      ClosesAt(r, x) /\ \A y \in c..(x - 1) : ~ClosesAt(r, y)
         IN  [found |-> TRUE, group |-> SubSeq(r, c, p - 1)]
    ELSE [found |-> FALSE, group |-> <<>>]

\* the pattern ```(?:json)?\s*([\s\S]*?)\s*``` tried at position s
MatchAt(r, s) ==
    IF ~OccursAt(r, Fence, s) THEN [found |-> FALSE, group |-> <<>>]
    ELSE LET starts == CaptureStarts(r, s)
             hits   == {k \in 1..Len(starts) : LazyGroup(r, starts[k]).found}
         IN  IF hits = {} THEN [found |-> FALSE, group |-> <<>>]
             ELSE LazyGroup(r, starts[CHOOSE k \in hits : \A j \in hits : k <= j])

\* re.search: the leftmost position where the pattern matches
FenceSearch(r) ==
    LET hits == {s \in 1..Len(r) : MatchAt(r, s).found}
    IN  IF hits = {} THEN [found |-> FALSE, group |-> <<>>]
        ELSE MatchAt(r, CHOOSE s \in hits : \A t \in hits : s <= t)

\* result after `.strip()` and the clean-up of markdown code blocks
CleanResponse(content) ==
    LET result == Strip(content)
    IN  IF StartsWith(result, Fence) /\ Contains(result, Fence)
        THEN (IF FenceSearch(result).found
              THEN Strip(FenceSearch(result).group)
              ELSE result)
        ELSE result

\* A question object as json.loads returns it.
QuestionObject(q, has_category, category) ==
    [type |-> "object",
     keys |-> {"question", "options", "answer"}
              \cup (IF has_category THEN {"category"} ELSE {}),
     question |-> q, category |-> category]

\* json.loads on the texts the model's service answers.  A question object is written
\* {"..."} : the character { stands for the text {"question": and } for the
\* text ,"options":["A.","B.","C.","D."],"answer":"A"} (texts with no
\* backtick and no space).  The grammar read is
\*     ws [ ws ( obj ( ws , ws obj )* )? ws ] ws      obj = { " chars " }
\* where a string holds any characters but " and control characters.
RECURSIVE JsonScan(_, _, _, _, _)
JsonScan(s, i, st, elems, cur) ==
    IF i > Len(s)
    THEN (IF st = "end" THEN [type |-> "array", elems |-> elems]
          ELSE [type |-> "invalid"])
    ELSE LET c == s[i]
             Bad == [type |-> "invalid"]
         IN  CASE st = "in_str" ->
                    (IF c = "\"" THEN JsonScan(s, i + 1, "str_end", elems, cur)
                     ELSE IF c \in {"\n", "\t"} THEN Bad
                     ELSE JsonScan(s, i + 1, "in_str", elems, Append(cur, c)))
               [] st = "obj_open" ->
                    (IF c = "\"" THEN JsonScan(s, i + 1, "in_str", elems, <<>>) ELSE Bad)
               [] st = "str_end" ->
                    (IF c = "}"
                     THEN JsonScan(s, i + 1, "after_obj",
                                   Append(elems, QuestionObject(cur, FALSE, "")), <<>>)
                     ELSE Bad)
               [] IsSpace(c) -> JsonScan(s, i + 1, st, elems, cur)
               [] st = "start" ->
                    (IF c = "[" THEN JsonScan(s, i + 1, "first", elems, cur) ELSE Bad)
               [] st = "first" ->
                    (IF c = "]" THEN JsonScan(s, i + 1, "end", elems, cur)
                     ELSE IF c = "{" THEN JsonScan(s, i + 1, "obj_open", elems, cur)
                     ELSE Bad)
               [] st = "after_obj" ->
                    (IF c = "]" THEN JsonScan(s, i + 1, "end", elems, cur)
                     ELSE IF c = "," THEN JsonScan(s, i + 1, "next", elems, cur)
                     ELSE Bad)
               [] st = "next" ->
                    (IF c = "{" THEN JsonScan(s, i + 1, "obj_open", elems, cur) ELSE Bad)
               [] OTHER -> Bad

JsonLoads(s) == JsonScan(s, 1, "start", <<>>, <<>>)

\* generate_questions(data, openai_client, company_code, id_counter, num_questions)
\* when the service answers `response`: the pair it returns, and how it ended.
GenerateQuestions(data, code, counter, response) ==
    IF response.kind = "api_error"
    THEN [questions |-> <<>>, id_counter |-> counter, outcome |-> "api_error"]
    ELSE LET value == IF response.kind = "text"
                      THEN JsonLoads(CleanResponse(response.content))
                      ELSE response.value
         IN  CASE value.type = "invalid" ->
                    [questions |-> <<>>, id_counter |-> counter, outcome |-> "bad_json"]
               [] value.type = "number" ->
                    [questions |-> <<>>, id_counter |-> counter, outcome |-> "not_iterable"]
               [] value.type = "array" ->
                    FormatLoop(data, code, value.elems, 1, counter, <<>>)

(***************************************************************************)
(* collect_gcc_company_pdfs                                                *)
(***************************************************************************)
\* the dictionary company_name_map
company_name_map ==
    { <<<<"B", "B", "K">>,
         <<"B", "a", "n", "k", " ", "o", "f", " ", "B", "a", "h", "r", "a", "i", "n", " ", "a", "n", "d", " ", "K", "u", "w", "a", "i", "t">>>>,
      <<<<"N", "B", "B">>,
         <<"N", "a", "t", "i", "o", "n", "a", "l", " ", "B", "a", "n", "k", " ", "o", "f", " ", "B", "a", "h", "r", "a", "i", "n">>>>,
      <<<<"S", "I", "B">>,
         <<"S", "o", "h", "a", "r", " ", "I", "n", "t", "e", "r", "n", "a", "t", "i", "o", "n", "a", "l", " ", "B", "a", "n", "k">>>>,
      <<<<"A", "B", "K">>,
         <<"A", "l", " ", "A", "h", "l", "i", " ", "B", "a", "n", "k", " ", "o", "f", " ", "K", "u", "w", "a", "i", "t">>>>,
      <<<<"N", "B", "K">>,
         <<"N", "a", "t", "i", "o", "n", "a", "l", " ", "B", "a", "n", "k", " ", "o", "f", " ", "K", "u", "w", "a", "i", "t">>>>,
      <<<<"B", "M">>,
         <<"B", "a", "n", "k", " ", "M", "u", "s", "c", "a", "t">>>>,
      <<<<"E", "D", "O">>,
         <<"E", "n", "e", "r", "g", "y", " ", "D", "e", "v", "e", "l", "o", "p", "m", "e", "n", "t", " ", "O", "m", "a", "n">>>>,
      <<<<"A", "D", "I", "B">>,
         <<"A", "b", "u", " ", "D", "h", "a", "b", "i", " ", "I", "s", "l", "a", "m", "i", "c", " ", "B", "a", "n", "k">>>>,
      <<<<"F", "A", "B">>,
         <<"F", "i", "r", "s", "t", " ", "A", "b", "u", " ", "D", "h", "a", "b", "i", " ", "B", "a", "n", "k">>>>,
      <<<<"E", "N", "B", "D">>,
         <<"E", "m", "i", "r", "a", "t", "e", "s", " ", "N", "B", "D">>>>,
      <<<<"D", "I", "B">>,
         <<"D", "u", "b", "a", "i", " ", "I", "s", "l", "a", "m", "i", "c", " ", "B", "a", "n", "k">>>>,
      <<<<"C", "B", "D">>,
         <<"C", "o", "m", "m", "e", "r", "c", "i", "a", "l", " ", "B", "a", "n", "k", " ", "o", "f", " ", "D", "u", "b", "a", "i">>>>,
      <<<<"T", "A", "B">>,
         <<"T", "a", "b", "r", "e", "e", "d">>>> }

\* re.match(r'^([A-Za-z]{2,4})[-_]', filename): the lengths group 1 can have
CodeMatchLengths(filename) ==
    {k \in 2..4 : /\ Len(filename) >= k + 1
                  /\ \A j \in 1..k : IsAlpha(filename[j])
                  /\ filename[k + 1] \in {"-", "_"}}

\* the company name inferred for one file of a country directory
CompanyNameOf(filename, country) ==
    IF CodeMatchLengths(filename) # {}
    THEN LET k    == CHOOSE x \in CodeMatchLengths(filename) :
                         \A y \in CodeMatchLengths(filename) : y <= x
             code == Upper(SubSeq(filename, 1, k))
         IN  DictGet(company_name_map, code, code \o <<" ">> \o country)
    ELSE Title(Replace(SplitFirst(filename, "_"), "-", " "))

\* company_pdfs after company_pdfs[company_name].append(entry), the key being
\* created when it is new
DictAppend(d, key, entry) ==
    [k \in DOMAIN d \cup {key} |->
        IF k = key
        THEN Append(IF key \in DOMAIN d THEN d[key] ELSE <<>>, entry)
        ELSE d[k]]

\* one iteration of `for pdf_path in pdf_files`
CollectPdf ==
    /\ pc = "collect"
    /\ dir_listing # <<>>
    /\ LET f == Head(dir_listing)
       IN  company_pdfs' = DictAppend(company_pdfs,
                                      CompanyNameOf(f.filename, f.country),
                                      [country |-> f.country, filename |-> f.filename])
    /\ dir_listing' = Tail(dir_listing)
    /\ UNCHANGED <<pc, call, ret, returns>>
    /\ UNCHANGED driverVars

\* `return company_pdfs`
CollectReturn ==
    /\ pc = "collect"
    /\ dir_listing = <<>>
    /\ pc' = "collected"
    /\ UNCHANGED <<call, ret, returns, dir_listing, company_pdfs>>
    /\ UNCHANGED driverVars

\* the files a listing may hold
MaxFiles == 2

MaxStemLen == 3

StemChars == {"b", "M", "-", "_"}

ExtPdf == <<".", "p", "d", "f">>

FabReport == <<"F", "A", "B", "_", "R", "e", "p", "o", "r", "t", "_", "2", "0", "2", "3", ".", "p", "d", "f">>

RandomFile == <<"r", "a", "n", "d", "o", "m", "f", "i", "l", "e", ".", "p", "d", "f">>

Seqs(S, lo, hi) == UNION {[1..n -> S] : n \in lo..hi}

\* what glob("*.pdf") can return: names that end in .pdf and do not start with a dot
Filenames ==
    {stem \o ExtPdf : stem \in Seqs(StemChars, 1, MaxStemLen)} \cup {FabReport, RandomFile}

Countries == {<<"U", "A", "E">>, <<"O", "m", "a", "n">>}

InitCollect ==
    /\ pc = "collect"
    /\ dir_listing \in Seqs([country : Countries, filename : Filenames], 1, MaxFiles)
    /\ company_pdfs = <<>>
    /\ call = NoCall /\ ret = NoCall
    /\ returns = "exact"
    /\ DriverIdle

NextCollect == CollectPdf \/ CollectReturn

SpecCollect == InitCollect /\ [][NextCollect]_vars

(***************************************************************************)
(* One call of create_chunks_from_text                                     *)
(***************************************************************************)
MaxTextLen == 4500

CreateChunks ==
    /\ pc = "create_chunks"
    /\ ret' = [fn |-> "create_chunks_from_text",
               chunks |-> CreateChunksFromText(call.text_len)]
    /\ pc' = "returned"
    /\ UNCHANGED <<call, returns, dir_listing, company_pdfs>>
    /\ UNCHANGED driverVars

InitChunks ==
    /\ pc = "create_chunks"
    /\ call \in [fn : {"create_chunks_from_text"}, text_len : 0..MaxTextLen]
    /\ ret = NoCall
    /\ returns = "exact"
    /\ CollectorIdle
    /\ DriverIdle

NextChunks == CreateChunks

SpecChunks == InitChunks /\ [][NextChunks]_vars

(***************************************************************************)
(* One call of generate_questions                                          *)
(***************************************************************************)
BankMuscat == <<"B", "a", "n", "k", " ", "M", "u", "s", "c", "a", "t">>

RandomfilePdf == <<"R", "a", "n", "d", "o", "m", "f", "i", "l", "e", ".", "P", "d", "f">>

ListedCategories == {p[1] : p \in source_type_mapping}

\* the raw categories an answer may give: the listed ones and an unlisted one
RawCategories == ListedCategories \cup {"Other"}

QuestionText == <<"q">>

\* the elements of an answered array: well-formed objects with or without a
\* category, objects that lack one required key, and a non-object
Elements ==
    {QuestionObject(QuestionText, TRUE, c) : c \in RawCategories}
    \cup {QuestionObject(QuestionText, FALSE, "")}
    \cup {[QuestionObject(QuestionText, FALSE, "") EXCEPT !.keys = @ \ {k}] :
             k \in {"question", "options", "answer"}}
    \cup {[type |-> "string"]}

MaxElems == 2

GenResponses ==
    {[kind |-> "api_error"]}
    \cup {[kind |-> "json", value |-> [type |-> t]] : t \in {"invalid", "number"}}
    \cup {[kind |-> "json", value |-> [type |-> "array", elems |-> e]] :
             e \in Seqs(Elements, 0, MaxElems)}

\* the data arguments: the first chunk of a document, or the company's name
GenData(company) ==
    {ChunkData([chunk_id |-> <<"1">>], company), PersonnelData(company)}

Generate ==
    /\ pc = "generate"
    /\ ret' = GenerateQuestions(call.data, call.company_code, call.id_counter,
                                call.response)
    /\ pc' = "returned"
    /\ UNCHANGED <<call, returns, dir_listing, company_pdfs>>
    /\ UNCHANGED driverVars

\* id_counter on entry: the first call of a company, or a later one
MaxCounterOffset == 1

InitGen ==
    /\ pc = "generate"
    /\ \E company \in {BankMuscat, RandomfilePdf} :
          call \in [fn : {"generate_questions"},
                    data : GenData(company),
                    company_code : {generate_company_code(company)},
                    id_counter : 1000..(1000 + MaxCounterOffset),
                    response : GenResponses]
    /\ ret = NoCall
    /\ returns = "exact"
    /\ CollectorIdle
    /\ DriverIdle

NextGen == Generate

SpecGen == InitGen /\ [][NextGen]_vars

(***************************************************************************)
(* One call of generate_questions on an answer given as text               *)
(***************************************************************************)
MaxStrLen == 3

MaxFenceElems == 2

\* the characters of a question's text
StrChars == {"x", Backtick}

\* the text of an array of question objects
RECURSIVE ArrayBody(_)
ArrayBody(strs) ==
    IF strs = <<>> THEN <<>>
    ELSE <<"{", "\"">> \o Head(strs) \o <<"\"", "}">>
         \o (IF Tail(strs) = <<>> THEN <<>> ELSE <<",">> \o ArrayBody(Tail(strs)))

JsonArrayTexts ==
    {<<"[">> \o ArrayBody(strs) \o <<"]">> :
        strs \in Seqs(Seqs(StrChars, 0, MaxStrLen), 0, MaxFenceElems)}

\* the text J inside a code fence: tag is <<>> or JsonTag, sep separates the
\* fence lines from J
Fenced(J, tag, sep) == Fence \o tag \o sep \o J \o sep \o Fence

FenceWraps == [tag : {<<>>, JsonTag}, sep : {<<>>, <<"\n">>}]

InitFence ==
    /\ pc = "generate"
    /\ \E J \in JsonArrayTexts, w \in FenceWraps :
          call = [fn |-> "generate_questions",
                  data |-> ChunkData([chunk_id |-> <<"1">>], BankMuscat),
                  company_code |-> generate_company_code(BankMuscat),
                  id_counter |-> 1000,
                  json_text |-> J,
                  response |-> [kind |-> "text", content |-> Fenced(J, w.tag, w.sep)]]
    /\ ret = NoCall
    /\ returns = "exact"
    /\ CollectorIdle
    /\ DriverIdle

SpecFence == InitFence /\ [][NextGen]_vars

(***************************************************************************)
(* process_company_documents                                               *)
(***************************************************************************)
\* chunks[:min(5, len(chunks))]
chunks_per_document == 5

\* min(5, questions_needed)
questions_per_call == 5

\* A plausible slip: every document's chunks are all used.
ChunksToUse_All(chunks) == chunks

ChunksToUse(chunks) == SubSeq(chunks, 1, Min(chunks_per_document, Len(chunks)))

\* A plausible slip: a full batch is requested whatever is still needed.
QuestionsToGenerate_FullBatch(needed) == questions_per_call

\* questions_to_generate = min(5, questions_needed)
QuestionsToGenerate(needed) == Min(questions_per_call, needed)

\* A plausible slip: the personnel call is made whenever the quota is positive.
PersonnelWanted_AnyQuota(n, quota) == quota > 0

\* `if len(all_questions) < questions_per_company`
PersonnelWanted(n, quota) == n < quota

\* `if document_text:` : extraction returned a non-empty text
Truthy(info) == info.extracted /\ info.text_len > 0

\* how the results so far compare with what was asked, after a call that was
\* asked n questions and returned m
ReturnsAfter(n, m) ==
    IF returns = "over" \/ m > n THEN "over"
    ELSE IF returns = "short" \/ m < n THEN "short"
    ELSE "exact"

\* the bounds of the runs explored
MaxQuota == 6

MaxDocs == 2

MaxExtra == 1

GoodElement == QuestionObject(QuestionText, TRUE, "Financial Performance")

BadElement == [GoodElement EXCEPT !.keys = @ \ {"answer"}]

MaxDrift == 1

\* The identifiers skipped so far: how far the counter is ahead of the questions kept.
Drift == id_counter - 1000 - Len(all_questions)

\* what the service may answer to a request for n questions: an error, a text
\* that is not a JSON array, or an array of up to n + MaxExtra elements of which
\* at most one cannot be formatted (at any position that keeps the identifiers
\* skipped in the run within MaxDrift)
DriverResponses(n) ==
    {[kind |-> "api_error"], [kind |-> "json", value |-> [type |-> "invalid"]]}
    \cup {[kind |-> "json",
           value |-> [type |-> "array",
                      elems |-> [k \in 1..m |-> IF k = bad THEN BadElement
                                                ELSE GoodElement]]] :
             m \in 0..(n + MaxExtra), bad \in 0..(MaxDrift - Drift)}

\* the lengths of the extracted texts explored: too short for a chunk, two
\* chunks, and more chunks than one document may use
TextLens ==
    {min_chunk_len - 1, chunk_size - min_chunk_len,
     (chunks_per_document + 1) * (chunk_size - chunk_overlap) + min_chunk_len}

\* what extract_text_from_pdf returns for a document: None, or a text
Extractions ==
    {[extracted |-> FALSE, text_len |-> 0]}
    \cup {[extracted |-> TRUE, text_len |-> n] : n \in TextLens}

Companies == {BankMuscat}

Init ==
    /\ pc = "for_pdf"
    /\ company_name \in Companies
    /\ company_code = generate_company_code(company_name)
    /\ questions_per_company \in (0 - 1)..MaxQuota
    /\ pdf_infos \in Seqs(Extractions, 1, MaxDocs)
    /\ doc_idx = 0
    /\ chunks_to_use = <<>>
    /\ chunk_idx = 0
    /\ questions_needed = 0
    /\ all_questions = <<>>
    /\ id_counter = 1000
    /\ calls = <<>>
    /\ output_file = <<>>
    /\ returns = "exact"
    /\ call = NoCall /\ ret = NoCall
    /\ CollectorIdle

collectorVars == <<dir_listing, company_pdfs>>

runArgs == <<company_name, company_code, questions_per_company, pdf_infos>>

\* extract_text_from_pdf returned None or an empty text: the document is skipped
ExtractFails ==
    /\ pc = "for_pdf"
    /\ doc_idx < Len(pdf_infos)
    /\ ~Truthy(pdf_infos[doc_idx + 1])
    /\ doc_idx' = doc_idx + 1
    /\ UNCHANGED <<pc, chunks_to_use, chunk_idx, questions_needed, all_questions,
                   id_counter, calls, output_file, returns, call, ret>>
    /\ UNCHANGED runArgs /\ UNCHANGED collectorVars

\* a document with text when nothing more is needed: `break`
QuotaMetBreak ==
    /\ pc = "for_pdf"
    /\ doc_idx < Len(pdf_infos)
    /\ Truthy(pdf_infos[doc_idx + 1])
    /\ questions_per_company - Len(all_questions) <= 0
    /\ doc_idx' = doc_idx + 1
    /\ questions_needed' = questions_per_company - Len(all_questions)
    /\ pc' = "personnel"
    /\ UNCHANGED <<chunks_to_use, chunk_idx, all_questions, id_counter, calls,
                   output_file, returns, call, ret>>
    /\ UNCHANGED runArgs /\ UNCHANGED collectorVars

\* a document with text: its chunks are created and the inner loop starts
StartChunks ==
    /\ pc = "for_pdf"
    /\ doc_idx < Len(pdf_infos)
    /\ Truthy(pdf_infos[doc_idx + 1])
    /\ questions_per_company - Len(all_questions) > 0
    /\ doc_idx' = doc_idx + 1
    /\ questions_needed' = questions_per_company - Len(all_questions)
    /\ chunks_to_use' = ChunksToUse(CreateChunksFromText(pdf_infos[doc_idx + 1].text_len))
    /\ chunk_idx' = 0
    /\ pc' = "for_chunk"
    /\ UNCHANGED <<all_questions, id_counter, calls, output_file, returns, call, ret>>
    /\ UNCHANGED runArgs /\ UNCHANGED collectorVars

\* `for pdf_info in pdf_infos` has no document left
DocsExhausted ==
    /\ pc = "for_pdf"
    /\ doc_idx = Len(pdf_infos)
    /\ pc' = "personnel"
    /\ UNCHANGED <<doc_idx, chunks_to_use, chunk_idx, questions_needed, all_questions,
                   id_counter, calls, output_file, returns, call, ret>>
    /\ UNCHANGED runArgs /\ UNCHANGED collectorVars

\* `for chunk in chunks_to_use` has no chunk left
ChunksExhausted ==
    /\ pc = "for_chunk"
    /\ chunk_idx = Len(chunks_to_use)
    /\ pc' = "for_pdf"
    /\ UNCHANGED <<doc_idx, chunks_to_use, chunk_idx, questions_needed, all_questions,
                   id_counter, calls, output_file, returns, call, ret>>
    /\ UNCHANGED runArgs /\ UNCHANGED collectorVars

\* `if questions_to_generate <= 0: break`
ChunkBreak ==
    /\ pc = "for_chunk"
    /\ chunk_idx < Len(chunks_to_use)
    /\ QuestionsToGenerate(questions_needed) <= 0
    /\ pc' = "for_pdf"
    /\ UNCHANGED <<doc_idx, chunks_to_use, chunk_idx, questions_needed, all_questions,
                   id_counter, calls, output_file, returns, call, ret>>
    /\ UNCHANGED runArgs /\ UNCHANGED collectorVars

\* generate_questions is called on the next chunk
ChunkCall ==
    /\ pc = "for_chunk"
    /\ chunk_idx < Len(chunks_to_use)
    /\ QuestionsToGenerate(questions_needed) > 0
    /\ chunk_idx' = chunk_idx + 1
    /\ call' = [fn |-> "generate_questions", mode |-> "chunk",
                data |-> ChunkData(chunks_to_use[chunk_idx + 1], company_name),
                company_code |-> company_code, id_counter |-> id_counter,
                num_questions |-> QuestionsToGenerate(questions_needed)]
    /\ calls' = Append(calls, [mode |-> "chunk", doc |-> doc_idx, chunk |-> chunk_idx + 1])
    /\ pc' = "chunk_call"
    /\ UNCHANGED <<doc_idx, chunks_to_use, questions_needed, all_questions, id_counter,
                   output_file, returns, ret>>
    /\ UNCHANGED runArgs /\ UNCHANGED collectorVars

\* generate_questions is called on the company's name for what is still missing
PersonnelCall ==
    /\ pc = "personnel"
    /\ PersonnelWanted(Len(all_questions), questions_per_company)
    /\ questions_needed' = questions_per_company - Len(all_questions)
    /\ call' = [fn |-> "generate_questions", mode |-> "personnel",
                data |-> PersonnelData(company_name),
                company_code |-> company_code, id_counter |-> id_counter,
                num_questions |-> questions_per_company - Len(all_questions)]
    /\ calls' = Append(calls, [mode |-> "personnel", doc |-> 0, chunk |-> 0])
    /\ pc' = "personnel_call"
    /\ UNCHANGED <<doc_idx, chunks_to_use, chunk_idx, all_questions, id_counter,
                   output_file, returns, ret>>
    /\ UNCHANGED runArgs /\ UNCHANGED collectorVars

\* the call returns: `questions, id_counter = generate_questions(...)`
CallReturns ==
    /\ pc \in {"chunk_call", "personnel_call"}
    /\ \E response \in DriverResponses(call.num_questions) :
          LET r == GenerateQuestions(call.data, call.company_code, call.id_counter,
                                     response)
          IN  /\ ret' = r
              /\ id_counter' = r.id_counter
              /\ returns' = ReturnsAfter(call.num_questions, Len(r.questions))
    /\ pc' = IF pc = "chunk_call" THEN "chunk_returned" ELSE "personnel_returned"
    /\ UNCHANGED <<doc_idx, chunks_to_use, chunk_idx, questions_needed, all_questions,
                   calls, output_file, call>>
    /\ UNCHANGED runArgs /\ UNCHANGED collectorVars

\* all_questions.extend(questions); questions_needed -= len(questions)
ChunkExtend ==
    /\ pc = "chunk_returned"
    /\ all_questions' = all_questions \o ret.questions
    /\ questions_needed' = questions_needed - Len(ret.questions)
    /\ call' = NoCall
    /\ ret' = NoCall
    /\ pc' = "for_chunk"
    /\ UNCHANGED <<doc_idx, chunks_to_use, chunk_idx, id_counter, calls, output_file,
                   returns>>
    /\ UNCHANGED runArgs /\ UNCHANGED collectorVars

\* all_questions.extend(personnel_questions)
PersonnelExtend ==
    /\ pc = "personnel_returned"
    /\ all_questions' = all_questions \o ret.questions
    /\ call' = NoCall
    /\ ret' = NoCall
    /\ pc' = "save"
    /\ UNCHANGED <<doc_idx, chunks_to_use, chunk_idx, questions_needed, id_counter,
                   calls, output_file, returns>>
    /\ UNCHANGED runArgs /\ UNCHANGED collectorVars

\* the quota is met: no personnel-mode call
PersonnelSkip ==
    /\ pc = "personnel"
    /\ ~PersonnelWanted(Len(all_questions), questions_per_company)
    /\ pc' = "save"
    /\ UNCHANGED <<doc_idx, chunks_to_use, chunk_idx, questions_needed, all_questions,
                   id_counter, calls, output_file, returns, call, ret>>
    /\ UNCHANGED runArgs /\ UNCHANGED collectorVars

\* the company's questions are written, one line each, and returned
SaveQuestions ==
    /\ pc = "save"
    /\ output_file' = all_questions
    /\ pc' = "done"
    /\ UNCHANGED <<doc_idx, chunks_to_use, chunk_idx, questions_needed, all_questions,
                   id_counter, calls, returns, call, ret>>
    /\ UNCHANGED runArgs /\ UNCHANGED collectorVars

Next ==
    \/ ExtractFails
    \/ QuotaMetBreak
    \/ StartChunks
    \/ DocsExhausted
    \/ ChunksExhausted
    \/ ChunkBreak
    \/ ChunkCall
    \/ PersonnelCall
    \/ CallReturns
    \/ ChunkExtend
    \/ PersonnelExtend
    \/ PersonnelSkip
    \/ SaveQuestions

Spec == Init /\ [][Next]_vars

(***************************************************************************)
(* Properties                                                              *)
(***************************************************************************)
Max(a, b) == IF a >= b THEN a ELSE b

\* ceil(a / b) for b > 0
CeilDiv(a, b) == (a + b - 1) \div b

ChunkCalls == {i \in DOMAIN calls : calls[i].mode = "chunk"}

PersonnelCalls == {i \in DOMAIN calls : calls[i].mode = "personnel"}

Returned == pc \in {"chunk_returned", "personnel_returned"}

\* the chunks the run may use: at most the first 5 of each document with text
UsableChunks(info) ==
    IF Truthy(info)
    THEN Min(chunks_per_document, Len(CreateChunksFromText(info.text_len)))
    ELSE 0

RECURSIVE SumUsable(_)
SumUsable(infos) ==
    IF infos = <<>> THEN 0 ELSE UsableChunks(Head(infos)) + SumUsable(Tail(infos))

\* C1: the ids of the company's questions, in the order they were assigned, are
\* code+"1001", code+"1002", ... with no gap, whatever calls failed in between.
C1_IdsConsecutive ==
    \A k \in 1..Len(all_questions) :
        all_questions[k].id = company_code \o IntToStr(1000 + k)

\* C2: a call that fails (the request raises, the answer is not JSON, or an
\* element cannot be formatted) contributes no question and returns the counter
\* it was given; the caller then goes on.
C2_FailedCallKeepsCounter ==
    (Returned /\ ret.outcome # "ok") =>
        /\ ret.questions = <<>>
        /\ ret.id_counter = call.id_counter
        /\ id_counter = call.id_counter
        /\ ENABLED (ChunkExtend \/ PersonnelExtend)

\* C3: when every call returns exactly what it was asked and the documents hold
\* enough usable chunks, each chunk-mode call requests min(5, quota - collected),
\* none is issued once the quota is reached, ceil(quota/5) chunk-mode calls are
\* issued in all and no personnel-mode call.
C3_QuotaLoop ==
    /\ (pc = "chunk_call" /\ returns = "exact") =>
          /\ call.num_questions = Min(5, questions_per_company - Len(all_questions))
          /\ Len(all_questions) < questions_per_company
          /\ Len(all_questions) = 5 * (Cardinality(ChunkCalls) - 1)
    /\ (pc = "done" /\ returns = "exact"
        /\ SumUsable(pdf_infos) >= CeilDiv(questions_per_company, 5)) =>
          /\ Cardinality(ChunkCalls) = CeilDiv(questions_per_company, 5)
          /\ PersonnelCalls = {}

C3_Witness ==
    /\ pc = "done"
    /\ returns = "exact"
    /\ questions_per_company = 6
    /\ Len(calls) = 2
    /\ PersonnelCalls = {}
    /\ Len(output_file) = 6

\* What the statement after the documents does, and that no call follows the
\* personnel-mode call.
C4_AfterDocuments ==
    /\ pc = "personnel" =>
          IF Len(all_questions) < questions_per_company
          THEN /\ pc' = "personnel_call"
               /\ call'.mode = "personnel"
               /\ call'.num_questions = questions_per_company - Len(all_questions)
               /\ calls' = Append(calls, [mode |-> "personnel", doc |-> 0, chunk |-> 0])
          ELSE pc' = "save" /\ calls' = calls
    /\ pc \in {"personnel_call", "personnel_returned", "save", "done"} =>
          /\ calls' = calls
          /\ pc' \notin {"for_pdf", "for_chunk", "chunk_call", "chunk_returned", "personnel"}
          /\ pc = "personnel_call" => pc' # "personnel_call"

\* No document yields text: no chunk-mode call, and the personnel-mode call is
\* reached with every document skipped and asks for the whole quota.
C4_NoText ==
    (\A d \in DOMAIN pdf_infos : ~pdf_infos[d].extracted) =>
        /\ ChunkCalls = {}
        /\ Cardinality(PersonnelCalls) <= 1
        /\ pc = "personnel_call" => call.num_questions = questions_per_company
        /\ (pc = "personnel" /\ questions_per_company > 0) =>
              doc_idx = Len(pdf_infos) /\ all_questions = <<>>

\* C4: once the documents are processed, a single personnel-mode call is issued
\* for quota - n questions when n < quota and none otherwise; it is never
\* repeated, whatever it returns; when no document yields text there is no
\* chunk-mode call and the one personnel-mode call asks for the whole quota.
C4_PersonnelFallback ==
    /\ [][C4_AfterDocuments]_vars
    /\ [](C4_NoText /\ Cardinality(PersonnelCalls) <= 1)

C4_Witness ==
    /\ pc = "done"
    /\ Len(pdf_infos) = 2
    /\ \A d \in DOMAIN pdf_infos : ~pdf_infos[d].extracted
    /\ questions_per_company = 6
    /\ calls = <<[mode |-> "personnel", doc |-> 0, chunk |-> 0]>>
    /\ Len(output_file) < 6

\* C5, as stated: every chunk but the last has length chunk_size.
C5_AllButLastFull ==
    pc = "returned" =>
        \A k \in 1..(Len(ret.chunks) - 1) : ret.chunks[k].text_len = chunk_size

\* C5, as amended: every chunk but the last two has length chunk_size, and the
\* last but one is shorter only when the last is shorter than the overlap.
C5_AllButLastTwoFull ==
    pc = "returned" =>
        LET n == Len(ret.chunks)
        IN  /\ \A k \in 1..(n - 2) : ret.chunks[k].text_len = chunk_size
            /\ (n >= 2 /\ ret.chunks[n - 1].text_len < chunk_size) =>
                  ret.chunks[n].text_len < chunk_overlap

C5_Witness ==
    /\ pc = "returned"
    /\ Len(ret.chunks) = 3
    /\ ret.chunks[1].text_len = chunk_size
    /\ ret.chunks[2].text_len < chunk_size
    /\ ret.chunks[3].text_len >= min_chunk_len

\* C6: in personnel mode every question returned has category "Key Personnel"
\* and source_type "personnel_data", whatever category the answer gave.
C6_PersonnelCategoryForced ==
    (pc = "returned" /\ ~IsChunk(call.data)) =>
        \A k \in 1..Len(ret.questions) :
            /\ ret.questions[k].category = "Key Personnel"
            /\ ret.questions[k].source_type = "personnel_data"

C6_Witness ==
    /\ pc = "returned"
    /\ ~IsChunk(call.data)
    /\ Len(ret.questions) = 2
    /\ RawCategory(call.response.value.elems[1]) = "Market Position"
    /\ RawCategory(call.response.value.elems[2]) = "Miscellaneous"

\* C7: a file whose name starts with a code of the table gets the table's name
\* ("FAB_Report_2023.pdf" in "UAE": "First Abu Dhabi Bank"); a name without the
\* prefix gets the title-cased text before the first underscore, with no file
\* extension in it ("randomfile.pdf": "Randomfile").
FirstAbuDhabiBank == <<"F", "i", "r", "s", "t", " ", "A", "b", "u", " ", "D", "h", "a", "b", "i", " ", "B", "a", "n", "k">>

Randomfile == <<"R", "a", "n", "d", "o", "m", "f", "i", "l", "e">>

\* s.endswith(p)
EndsWith(s, p) == Len(s) >= Len(p) /\ SubSeq(s, Len(s) - Len(p) + 1, Len(s)) = p

C7_CompanyNameInference ==
    \A name \in DOMAIN company_pdfs :
        \A k \in 1..Len(company_pdfs[name]) :
            LET f == company_pdfs[name][k].filename
            IN  /\ f = FabReport => name = FirstAbuDhabiBank
                /\ f = RandomFile => name = Randomfile
                /\ CodeMatchLengths(f) = {} =>
                      /\ ~EndsWith(Upper(name), Upper(ExtPdf))
                      /\ name = Title(Replace(SplitFirst(
                                    SubSeq(f, 1, Len(f) - Len(ExtPdf)), "_"), "-", " "))

\* C8: an answer that is a JSON array J inside a code fence, with or without
\* the json tag, yields the questions, the ids and the counter that J alone yields.
C8_FenceTransparent ==
    pc = "returned" =>
        ret = GenerateQuestions(call.data, call.company_code, call.id_counter,
                                [kind |-> "text", content |-> call.json_text])

\* C9, as stated: while no call returns more than it was asked, the questions
\* collected never exceed the quota, a chunk-mode call asks for between 1 and
\* min(5, quota - collected) questions, the file gets at most quota lines, and
\* with a quota <= 0 no call is made.
C9_WithinQuota ==
    returns # "over" =>
        /\ Len(all_questions) <= questions_per_company
        /\ Returned => Len(all_questions) + Len(ret.questions) <= questions_per_company
        /\ pc = "chunk_call" =>
              /\ 1 <= call.num_questions
              /\ call.num_questions <= Min(5, questions_per_company - Len(all_questions))
        /\ Len(output_file) <= questions_per_company
        /\ questions_per_company <= 0 => calls = <<>>

\* C9, as amended: the same with max(quota, 0) as the limit of the questions
\* collected and written.
C9_WithinQuotaOrZero ==
    returns # "over" =>
        /\ Len(all_questions) <= Max(questions_per_company, 0)
        /\ Returned => Len(all_questions) + Len(ret.questions) <= Max(questions_per_company, 0)
        /\ pc = "chunk_call" =>
              /\ 1 <= call.num_questions
              /\ call.num_questions <= Min(5, questions_per_company - Len(all_questions))
        /\ Len(output_file) <= Max(questions_per_company, 0)
        /\ questions_per_company <= 0 => calls = <<>>

C9_Witness ==
    /\ pc = "done"
    /\ returns = "short"
    /\ questions_per_company = 6
    /\ Len(output_file) = 6
    /\ Cardinality(ChunkCalls) >= 3

\* The calls issued so far: a chunk-mode call is for one of the first 5 chunks
\* of a document whose text was extracted, and comes after chunk-mode calls
\* only, each for an earlier document or an earlier chunk of the same document
\* (so no chunk is submitted twice and no document gets more than 5 calls); a
\* personnel-mode call is the last call of all (so there is at most one, after
\* every chunk-mode call).
C10_CallStructure ==
    \A i \in DOMAIN calls :
        IF calls[i].mode = "chunk"
        THEN /\ calls[i].doc \in DOMAIN pdf_infos
             /\ pdf_infos[calls[i].doc].extracted
             /\ calls[i].chunk \in 1..5
             /\ i > 1 =>
                   /\ calls[i - 1].mode = "chunk"
                   /\ \/ calls[i - 1].doc < calls[i].doc
                      \/ /\ calls[i - 1].doc = calls[i].doc
                         /\ calls[i - 1].chunk < calls[i].chunk
        ELSE i = Len(calls)

\* The statements the run can still execute, at most: 3 for each chunk of the
\* running document (call, return, extend), 2 to enter and leave a document's
\* chunks, 4 for the personnel call and the write.
Rank ==
    LET perDoc == 3 * chunks_per_document + 2
        base   == 5 + perDoc * (Len(pdf_infos) - doc_idx)
        inDoc  == base + 1 + 3 * (Len(chunks_to_use) - chunk_idx)
    IN  CASE pc = "done" -> 0
          [] pc = "save" -> 1
          [] pc = "personnel_returned" -> 2
          [] pc = "personnel_call" -> 3
          [] pc = "personnel" -> 4
          [] pc = "for_pdf" -> base
          [] pc = "for_chunk" -> inDoc
          [] pc = "chunk_returned" -> inDoc + 1
          [] pc = "chunk_call" -> inDoc + 2

\* C10: whatever the extractions and the calls return, chunk-mode calls are
\* issued only for documents whose text was extracted, at most 5 for each; at
\* most one personnel-mode call is issued, after every chunk-mode call; no call
\* is repeated; and the run always gets to write the company's file: before
\* the write some statement can always run, and every statement lowers Rank,
\* which is never negative.
C10_CallsBoundedAndRunEnds ==
    /\ [](C10_CallStructure /\ Rank >= 0 /\ (pc = "done" \/ ENABLED Next))
    /\ [][Rank' < Rank]_vars
    /\ [][pc' = "done" => output_file' = all_questions]_vars

C10_Witness ==
    /\ pc = "done"
    /\ Len(pdf_infos) = 2
    /\ Len(calls) = 11
    /\ calls[11].mode = "personnel"
    /\ output_file = <<>>

====
